---- MODULE Spec2Model ----
(***************************************************************************)
(* Rewise: the page-selection and review-tracking subsystem.               *)
(*                                                                         *)
(* Texts are sequences of one-character strings, so that split, strip,     *)
(* lower, float(), int(), strptime and the "%.2f" and "%Y-%m-%d" formats   *)
(* are computed as the code computes them.  Real numbers (confidence,      *)
(* score) are integers counted in thousandths (Milli).                     *)
(***************************************************************************)
EXTENDS Integers, Sequences, FiniteSets, TLC

VARIABLES ledger, today, op, pages, arg, readOk, blocks, tracking_data, outcome,
          ret, selected, review_count, confidence, entry, appendOk,
          log, metrics, database, dashboard, archive, procs

vars == <<ledger, today, op, pages, arg, readOk, blocks, tracking_data, outcome,
          ret, selected, review_count, confidence, entry, appendOk,
          log, metrics, database, dashboard, archive, procs>>

(* ---------------------------------------------------------------------- *)
(* Bounds of the model.                                                   *)
(* ---------------------------------------------------------------------- *)
\* longest ledger page a behaviour starts from, in blocks
MaxInitBlocks == 2

\* longest ledger page update_page_tracking is followed to, in blocks
MaxBlocks == 2

\* the same from an empty ledger page
MaxFreshBlocks == 3

\* longest ledger page the runs of the driver are followed to, in blocks
MaxRunBlocks == 2

\* the same between refreshes of the dashboard
MaxBoardBlocks == 2

\* longest dashboard page that is refreshed, in blocks
MaxDashboardBlocks == 40

\* longest ledger page the repeated runs of the driver write, in blocks
MaxRepeatBlocks == 5

(* ---------------------------------------------------------------------- *)
(* Characters and Python's str methods.                                   *)
(* ---------------------------------------------------------------------- *)
Digits == <<"0", "1", "2", "3", "4", "5", "6", "7", "8", "9">>

Uppers == <<"A", "B", "C", "D", "E", "F", "G", "H", "I", "J", "K", "L", "M",
            "N", "O", "P", "Q", "R", "S", "T", "U", "V", "W", "X", "Y", "Z">>

Lowers == <<"a", "b", "c", "d", "e", "f", "g", "h", "i", "j", "k", "l", "m",
            "n", "o", "p", "q", "r", "s", "t", "u", "v", "w", "x", "y", "z">>

\* the value of each digit character
DigitValue == [c \in {Digits[i] : i \in 1..10} |-> (CHOOSE i \in 1..10 : Digits[i] = c) - 1]

\* the lower-case letter of each upper-case letter
LowerOf == [c \in {Uppers[i] : i \in 1..26} |-> Lowers[CHOOSE i \in 1..26 : Uppers[i] = c]]

IsDigit(c) == c \in DOMAIN DigitValue

DigitVal(c) == DigitValue[c]

\* str.lower() on one character
LowerChar(c) == IF c \in DOMAIN LowerOf THEN LowerOf[c] ELSE c

\* str.lower()
Lower(s) == [i \in 1..Len(s) |-> LowerChar(s[i])]

\* str.strip(): leading and trailing whitespace removed
RECURSIVE LStrip(_)
LStrip(s) == IF s # <<>> /\ Head(s) = " " THEN LStrip(Tail(s)) ELSE s

RECURSIVE RStrip(_)
RStrip(s) ==
    IF s # <<>> /\ s[Len(s)] = " " THEN RStrip(SubSeq(s, 1, Len(s) - 1)) ELSE s

Strip(s) == RStrip(LStrip(s))

\* the first position from i on where s holds sep, Len(s) + 1 if none
RECURSIVE Find(_, _, _)
Find(s, sep, i) == IF i > Len(s) \/ s[i] = sep THEN i ELSE Find(s, sep, i + 1)

\* str.split(sep) for a one-character sep: the fields between its occurrences
RECURSIVE SplitFrom(_, _, _)
SplitFrom(s, sep, i) ==
    LET j == Find(s, sep, i)
    IN  IF j > Len(s) THEN <<SubSeq(s, i, Len(s))>>
        ELSE <<SubSeq(s, i, j - 1)>> \o SplitFrom(s, sep, j + 1)

Split(s, sep) == SplitFrom(s, sep, 1)

\* c in s, for a one-character c
Contains(s, c) == \E i \in 1..Len(s) : s[i] = c

\* "".join(runs)
RECURSIVE Join(_)
Join(runs) == IF runs = <<>> THEN <<>> ELSE Head(runs) \o Join(Tail(runs))

AllDigits(s) == \A i \in 1..Len(s) : IsDigit(s[i])

\* value of a string of decimal digits ("" counts 0)
RECURSIVE DigitsVal(_)
DigitsVal(s) ==
    IF s = <<>> THEN 0
    ELSE 10 * DigitsVal(SubSeq(s, 1, Len(s) - 1)) + DigitVal(s[Len(s)])

\* decimal digits of a natural number
RECURSIVE NatToChars(_)
NatToChars(n) ==
    IF n < 10 THEN <<Digits[n + 1]>>
    ELSE Append(NatToChars(n \div 10), Digits[(n % 10) + 1])

\* s padded on the left with zeros to at least w characters
RECURSIVE ZeroPad(_, _)
ZeroPad(s, w) == IF Len(s) >= w THEN s ELSE ZeroPad(<<"0">> \o s, w)

\* s padded on the right with zeros to at least w characters
RECURSIVE ZeroFill(_, _)
ZeroFill(s, w) == IF Len(s) >= w THEN s ELSE ZeroFill(Append(s, "0"), w)

\* str(n) for an integer
IntToChars(n) == IF n < 0 THEN <<"-">> \o NatToChars(-n) ELSE NatToChars(n)

(* ---------------------------------------------------------------------- *)
(* Numbers: float(), int(), "%.2f".                                       *)
(* ---------------------------------------------------------------------- *)
\* thousandths per unit: the resolution of the model's real numbers
Milli == 10 * 10 * 10

\* the result of a conversion: a value, or ValueError raised
Raised == [ok |-> FALSE, val |-> 0]

Value(v) == [ok |-> TRUE, val |-> v]

HasSign(s) == s # <<>> /\ Head(s) \in {"+", "-"}

Unsigned(s) == IF HasSign(s) THEN Tail(s) ELSE s

SignOf(s) == IF s # <<>> /\ Head(s) = "-" THEN -1 ELSE 1

\* float(s) of a stripped text: [sign] digits [. digits], in thousandths
\* (digits after the third fractional one are below the resolution)
ParseFloat(s) ==
    LET u == Unsigned(s)
        p == Split(u, ".")
        whole == p[1]
        frac == IF Len(p) = 2 THEN p[2] ELSE <<>>
    IN  IF /\ Len(p) <= 2
           /\ AllDigits(whole) /\ AllDigits(frac)
           /\ Len(whole) + Len(frac) > 0
        THEN Value(SignOf(s) * (DigitsVal(whole) * Milli
                                + DigitsVal(SubSeq(ZeroFill(frac, 3), 1, 3))))
        ELSE Raised

\* int(s) of a stripped text: [sign] digits
ParseInt(s) ==
    LET u == Unsigned(s)
    IN  IF u # <<>> /\ AllDigits(u) THEN Value(SignOf(s) * DigitsVal(u))
        ELSE Raised

\* f"{x:.2f}": x (in thousandths) rounded to hundredths, two decimals written
\* (an exact half, which no "%.2f" text read back plus 0.1 produces, rounds up)
Format2f(x) ==
    LET a == IF x < 0 THEN -x ELSE x
        h == (a + 5) \div 10
    IN  (IF x < 0 THEN <<"-">> ELSE <<>>)
        \o NatToChars(h \div 100) \o <<".">> \o ZeroPad(NatToChars(h % 100), 2)

(* ---------------------------------------------------------------------- *)
(* Dates: datetime.strptime(s, "%Y-%m-%d"), strftime("%Y-%m-%d") and the   *)
(* proleptic Gregorian ordinal that date subtraction uses.                 *)
(* ---------------------------------------------------------------------- *)
IsLeap(y) == y % 4 = 0 /\ (y % 100 # 0 \/ y % 400 = 0)

DaysInMonth(y, m) ==
    IF m = 2 THEN (IF IsLeap(y) THEN 29 ELSE 28)
    ELSE IF m \in {4, 6, 9, 11} THEN 30 ELSE 31

DaysBeforeYear(y) ==
    (y - 1) * 365 + (y - 1) \div 4 - (y - 1) \div 100 + (y - 1) \div 400

RECURSIVE DaysBeforeMonth(_, _)
DaysBeforeMonth(y, m) ==
    IF m = 1 THEN 0 ELSE DaysBeforeMonth(y, m - 1) + DaysInMonth(y, m - 1)

\* date(y, m, d).toordinal()
Ymd2Ord(y, m, d) == DaysBeforeYear(y) + DaysBeforeMonth(y, m) + d

\* date.fromordinal(n), as <<y, m, d>>
Ord2Ymd(n) ==
    LET y == CHOOSE yy \in (n \div 366)..(n \div 365 + 1) :
                 DaysBeforeYear(yy) < n /\ n <= DaysBeforeYear(yy + 1)
        r == n - DaysBeforeYear(y)
        m == CHOOSE mm \in 1..12 :
                 DaysBeforeMonth(y, mm) < r
                 /\ r <= DaysBeforeMonth(y, mm) + DaysInMonth(y, mm)
    IN  <<y, m, r - DaysBeforeMonth(y, m)>>

\* strftime("%Y-%m-%d") of the day with ordinal n
FormatDate(n) ==
    LET ymd == Ord2Ymd(n)
    IN  ZeroPad(NatToChars(ymd[1]), 4) \o <<"-">>
        \o ZeroPad(NatToChars(ymd[2]), 2) \o <<"-">>
        \o ZeroPad(NatToChars(ymd[3]), 2)

\* %m and %d accept one or two digits; %d also a space and one digit
MonthText(s) == Len(s) \in {1, 2} /\ AllDigits(s) /\ DigitsVal(s) \in 1..12

DayText(s) ==
    \/ Len(s) \in {1, 2} /\ AllDigits(s) /\ DigitsVal(s) \in 1..31
    \/ Len(s) = 2 /\ s[1] = " " /\ IsDigit(s[2]) /\ DigitVal(s[2]) \in 1..9

\* datetime.strptime(s, "%Y-%m-%d"): the day's ordinal, or ValueError raised
Strptime(s) ==
    LET p == Split(s, "-")
    IN  IF /\ Len(p) = 3
           /\ Len(p[1]) = 4 /\ AllDigits(p[1]) /\ DigitsVal(p[1]) >= 1
           /\ MonthText(p[2])
           /\ DayText(p[3])
           /\ DigitsVal(LStrip(p[3])) <= DaysInMonth(DigitsVal(p[1]), DigitsVal(p[2]))
        THEN Value(Ymd2Ord(DigitsVal(p[1]), DigitsVal(p[2]), DigitsVal(LStrip(p[3]))))
        ELSE Raised

(* ---------------------------------------------------------------------- *)
(* Blocks of a page and their text.                                       *)
(* ---------------------------------------------------------------------- *)
\* a paragraph block whose rich text is the given runs
Para(runs) ==
    [type |-> "paragraph",
     paragraph |-> [rich_text |-> [i \in 1..Len(runs) |-> [plain_text |-> runs[i]]]]]

\* a block that carries no rich text
Divider == [type |-> "divider", divider |-> [color |-> "default"]]

\* extract_text
extract_text(block) ==
    IF block.type \in DOMAIN block /\ "rich_text" \in DOMAIN block[block.type]
    THEN LET rt == block[block.type].rich_text
         IN  Join([i \in 1..Len(rt) |-> rt[i].plain_text])
    ELSE <<>>

(* ---------------------------------------------------------------------- *)
(* The ledger codec: get_page_tracking_data.                              *)
(* ---------------------------------------------------------------------- *)
\* the mapping with no entry
NoData == [k \in {} |-> 0]

\* ParseBlock without the field-count guard: a text with a pipe and fewer
\* than four fields raises (IndexError) instead of being skipped
ParseBlockNoGuard(block) ==
    LET text == extract_text(block)
        parts == Split(text, "|")
        conf == IF Strip(parts[3]) # <<>> THEN ParseFloat(Strip(parts[3])) ELSE Value(0)
        count == IF Strip(parts[4]) # <<>> THEN ParseInt(Strip(parts[4])) ELSE Value(0)
    IN  IF ~Contains(text, "|")
        THEN [kind |-> "skip"]
        ELSE IF Len(parts) < 4 \/ ~conf.ok \/ ~count.ok
        THEN [kind |-> "raise"]
        ELSE [kind |-> "record",
              id |-> Strip(parts[1]),
              rec |-> [last_reviewed |-> Strip(parts[2]),
                       confidence |-> conf.val,
                       review_count |-> count.val]]

\* what one block contributes: nothing (kind "skip"), one record under id
\* (kind "record"), or ValueError raised by float() or int() (kind "raise")
ParseBlock(block) ==
    LET text == extract_text(block)
        parts == Split(text, "|")
        conf == IF Strip(parts[3]) # <<>> THEN ParseFloat(Strip(parts[3])) ELSE Value(0)
        count == IF Strip(parts[4]) # <<>> THEN ParseInt(Strip(parts[4])) ELSE Value(0)
    IN  IF ~Contains(text, "|") \/ Len(parts) < 4
        THEN [kind |-> "skip"]
        ELSE IF ~conf.ok \/ ~count.ok
        THEN [kind |-> "raise"]
        ELSE [kind |-> "record",
              id |-> Strip(parts[1]),
              rec |-> [last_reviewed |-> Strip(parts[2]),
                       confidence |-> conf.val,
                       review_count |-> count.val]]

\* DecodeFrom keeping the first record seen of each id instead of the last
RECURSIVE DecodeFromFirstWins(_, _, _)
DecodeFromFirstWins(bs, i, td) ==
    IF i > Len(bs) THEN [raised |-> FALSE, data |-> td]
    ELSE LET r == ParseBlock(bs[i])
         IN  IF r.kind = "raise" THEN [raised |-> TRUE, data |-> [k \in {} |-> 0]]
             ELSE IF r.kind = "skip" THEN DecodeFromFirstWins(bs, i + 1, td)
             ELSE DecodeFromFirstWins(bs, i + 1, td @@ (r.id :> r.rec))

\* the loop over the blocks, from block i on, with the mapping built so far
RECURSIVE DecodeFrom(_, _, _)
DecodeFrom(bs, i, td) ==
    IF i > Len(bs) THEN [raised |-> FALSE, data |-> td]
    ELSE LET r == ParseBlock(bs[i])
         IN  IF r.kind = "raise" THEN [raised |-> TRUE, data |-> NoData]
             ELSE IF r.kind = "skip" THEN DecodeFrom(bs, i + 1, td)
             ELSE DecodeFrom(bs, i + 1, (r.id :> r.rec) @@ td)

\* get_page_tracking_data on the blocks get_page_content returned
Decode(bs) == DecodeFrom(bs, 1, NoData)

\* AppendChildren replacing the page's blocks by the new ones
AppendChildrenInPlace(page, children) == children

\* PATCH blocks/{page}/children: the page after a successful append request
AppendChildren(page, children) == page \o children

\* get_page_content: the page's blocks, or [] when the request failed
get_page_content(page, rdOk) == IF rdOk THEN page ELSE <<>>

(* ---------------------------------------------------------------------- *)
(* The scorer: select_page_for_review.                                    *)
(* ---------------------------------------------------------------------- *)
\* the score of a page that has no ledger entry
NeverReviewedScore == 1000

\* the titles the scorer skips
SpecialTitles == {<<"r", "e", "w", "i", "s", "e">>,
                  <<"r", "e", "v", "i", "e", "w", " ", "t", "r", "a", "c", "k", "e", "r">>}

\* the page's title: the first run of its title property, "" without one
TitleOf(page) == IF page.title # <<>> THEN page.title[1].plain_text ELSE <<>>

\* whether the scorer skips the page
IsSpecial(page) == Lower(TitleOf(page)) \in SpecialTitles

\* the pages the scorer scores, in input order
Scored(ps) == SelectSeq(ps, LAMBDA p : ~IsSpecial(p))

\* whether scoring the page raises: its entry's date does not parse
ScoreRaises(page, td, now) ==
    page.id \in DOMAIN td /\ ~Strptime(td[page.id].last_reviewed).ok

\* ScoreOf without the never-reviewed sentinel: a page without an entry
\* scores as one reviewed today with full confidence
ScoreOfNoSentinel(page, td, now) ==
    IF page.id \in DOMAIN td
    THEN (now - Strptime(td[page.id].last_reviewed).val) * 10 * Milli
         + (Milli - td[page.id].confidence) * 50
    ELSE 0

\* the score of one page, in thousandths
ScoreOf(page, td, now) ==
    IF page.id \in DOMAIN td
    THEN LET days_since_review == now - Strptime(td[page.id].last_reviewed).val
         IN  days_since_review * 10 * Milli + (Milli - td[page.id].confidence) * 50
    ELSE NeverReviewedScore * Milli

\* InsertDesc putting x before its equals
RECURSIVE InsertDescBefore(_, _)
InsertDescBefore(x, s) ==
    IF s = <<>> THEN <<x>>
    ELSE IF x.score >= Head(s).score THEN <<x>> \o s
    ELSE <<Head(s)>> \o InsertDescBefore(x, Tail(s))

\* x inserted into a list sorted by score descending, after its equals
RECURSIVE InsertDesc(_, _)
InsertDesc(x, s) ==
    IF s = <<>> THEN <<x>>
    ELSE IF x.score > Head(s).score THEN <<x>> \o s
    ELSE <<Head(s)>> \o InsertDesc(x, Tail(s))

\* list.sort(key=score, reverse=True): stable, equal scores keep their order
RECURSIVE SortDesc(_)
SortDesc(s) ==
    IF s = <<>> THEN <<>>
    ELSE InsertDesc(s[Len(s)], SortDesc(SubSeq(s, 1, Len(s) - 1)))

\* Select returning the page of the lowest score
SelectLowest(ps, td, now) ==
    LET scored == Scored(ps)
        page_scores == [i \in 1..Len(scored) |->
                           [score |-> ScoreOf(scored[i], td, now), page |-> scored[i]]]
    IN  IF ps = <<>> \/ page_scores = <<>> THEN <<>>
        ELSE <<SortDesc(page_scores)[Len(page_scores)].page>>

\* select_page_for_review given the decoded ledger: the page returned as a
\* list of one page, no page (None) as the empty list
Select(ps, td, now) ==
    LET scored == Scored(ps)
        page_scores == [i \in 1..Len(scored) |->
                           [score |-> ScoreOf(scored[i], td, now), page |-> scored[i]]]
    IN  IF ps = <<>> \/ page_scores = <<>> THEN <<>>
        ELSE <<SortDesc(page_scores)[1].page>>

\* whether select_page_for_review raises given the decoded ledger
SelectRaises(ps, td, now) ==
    ps # <<>> /\ \E i \in 1..Len(ps) : ~IsSpecial(ps[i]) /\ ScoreRaises(ps[i], td, now)

(* ---------------------------------------------------------------------- *)
(* The updater: update_page_tracking.                                     *)
(* ---------------------------------------------------------------------- *)
\* the first-review confidence and the confidence step, in thousandths
ConfidenceStep == Milli \div 10

\* the review count and confidence of the new record
NextReviewCount(td, page_id) ==
    IF page_id \in DOMAIN td THEN td[page_id].review_count + 1 ELSE 1

Min(x, y) == IF x <= y THEN x ELSE y

\* NextConfidence without the clamp at 1.0
NextConfidenceUnclamped(td, page_id) ==
    IF page_id \in DOMAIN td
    THEN td[page_id].confidence + ConfidenceStep
    ELSE ConfidenceStep

NextConfidence(td, page_id) ==
    IF page_id \in DOMAIN td
    THEN Min(td[page_id].confidence + ConfidenceStep, Milli)
    ELSE ConfidenceStep

\* the title the driver passes: the page's title, "Untitled" without one
TitleOrUntitled(page) ==
    IF page.title # <<>> THEN page.title[1].plain_text ELSE <<"U", "n", "t", "i", "t", "l", "e", "d">>

\* the formatted entry
Entry(page_id, current_date, conf, count, page_title, mcq_count) ==
    page_id \o <<"|">> \o current_date \o <<"|">> \o Format2f(conf) \o <<"|">>
    \o IntToChars(count) \o <<"|">> \o page_title \o <<"|">>
    \o IntToChars(mcq_count) \o <<" ", "M", "C", "Q", "s">>

(* ---------------------------------------------------------------------- *)
(* The dashboard aggregator: calculate_dashboard_metrics.                 *)
(* ---------------------------------------------------------------------- *)
\* the titles the aggregator skips
SPECIAL_PAGES == <<<<"r", "e", "w", "i", "s", "e">>,
                   <<"r", "e", "v", "i", "e", "w", " ", "t", "r", "a", "c", "k", "e", "r">>,
                   <<"r", "e", "w", "i", "s", "e", " ", "d", "a", "s", "h", "b", "o", "a", "r", "d">>,
                   <<"r", "e", "w", "i", "s", "e", " ", "d", "a", "s", "h", "b", "o", "a", "r", "d">>>>

\* a in b, for strings
IsSubstring(a, b) == \E i \in 0..(Len(b) - Len(a)) : SubSeq(b, i + 1, i + Len(a)) = a

\* whether the aggregator skips a page of this title: some special title
\* holds it or is held by it, case-insensitively
MatchesSpecial(title) ==
    \E k \in DOMAIN SPECIAL_PAGES :
        \/ IsSubstring(Lower(SPECIAL_PAGES[k]), Lower(title))
        \/ IsSubstring(Lower(title), Lower(SPECIAL_PAGES[k]))

\* regular_pages: the pages the aggregator counts, in input order
RegularPages(ps) == SelectSeq(ps, LAMBDA p : ~MatchesSpecial(TitleOf(p)))

\* the keys of the decoded mapping in dict order: each id where it is first set
RECURSIVE KeyOrder(_, _, _)
KeyOrder(bs, i, keys) ==
    IF i > Len(bs) THEN keys
    ELSE LET r == ParseBlock(bs[i])
         IN  IF r.kind = "record" /\ ~\E k \in DOMAIN keys : keys[k] = r.id
             THEN KeyOrder(bs, i + 1, Append(keys, r.id))
             ELSE KeyOrder(bs, i + 1, keys)

\* the code point of a character of a date text
CharCode(c) == IF c = " " THEN 32 ELSE IF c = "-" THEN 45 ELSE 48 + DigitVal(c)

\* a < b, for strings
RECURSIVE StrLess(_, _)
StrLess(a, b) ==
    IF b = <<>> THEN FALSE
    ELSE IF a = <<>> THEN TRUE
    ELSE IF Head(a) = Head(b) THEN StrLess(Tail(a), Tail(b))
    ELSE CharCode(Head(a)) < CharCode(Head(b))

\* x inserted into a list sorted by date descending, after its equals
RECURSIVE InsertByDate(_, _)
InsertByDate(x, s) ==
    IF s = <<>> THEN <<x>>
    ELSE IF StrLess(Head(s).date, x.date) THEN <<x>> \o s
    ELSE <<Head(s)>> \o InsertByDate(x, Tail(s))

\* list.sort(key=date, reverse=True)
RECURSIVE SortByDate(_)
SortByDate(s) ==
    IF s = <<>> THEN <<>>
    ELSE InsertByDate(s[Len(s)], SortByDate(SubSeq(s, 1, Len(s) - 1)))

\* s[:n]
Take(s, n) == SubSeq(s, 1, Min(Len(s), n))

\* the sum of a field over the entries of the mapping
RECURSIVE SumOf(_, _, _)
SumOf(td, ids, field) ==
    IF ids = {} THEN 0
    ELSE LET id == CHOOSE x \in ids : TRUE
         IN  td[id][field] + SumOf(td, ids \ {id}, field)

\* a quotient of two numbers, kept exact
Ratio(num, den) == [num |-> num, den |-> den]

\* whether calculate_dashboard_metrics raises: some entry's date does not parse
MetricsRaise(td) == \E id \in DOMAIN td : ~Strptime(td[id].last_reviewed).ok

\* the title joined to a ledger entry: that of its regular page, else "Unknown"
JoinedTitle(regular, page_id) ==
    LET at == {i \in DOMAIN regular : regular[i].id = page_id}
        first == CHOOSE i \in at : \A j \in at : i <= j
    IN  IF at = {} \/ regular[first].title = <<>> THEN <<"U", "n", "k", "n", "o", "w", "n">>
        ELSE TitleOf(regular[first])

\* total_mcqs
TotalMcqs(td) == SumOf(td, DOMAIN td, "review_count")

\* calculate_dashboard_metrics given the blocks read and the decoded ledger;
\* now is a time of day after midnight, so "within the week" is the last 7 days
Metrics(ps, bs, td, now) ==
    LET regular == RegularPages(ps)
        keys == KeyOrder(bs, 1, <<>>)
        recent == [k \in DOMAIN keys |->
                      [title |-> JoinedTitle(regular, keys[k]),
                       date |-> td[keys[k]].last_reviewed,
                       confidence |-> td[keys[k]].confidence,
                       review_count |-> td[keys[k]].review_count]]
        never == SelectSeq(regular, LAMBDA p : p.id \notin DOMAIN td)
        tracked == SelectSeq(regular, LAMBDA p : p.id \in DOMAIN td)
        overdue == [i \in DOMAIN tracked |->
                       [score |-> now - Strptime(td[tracked[i].id].last_reviewed).val,
                        page |-> [title |-> TitleOf(tracked[i]),
                                  days_overdue |-> now - Strptime(td[tracked[i].id].last_reviewed).val,
                                  confidence |-> td[tracked[i].id].confidence]]]
        sorted == SortDesc(overdue)
    IN  [total_pages |-> Len(regular),
         pages_reviewed_this_week |->
             Cardinality({id \in DOMAIN td : Strptime(td[id].last_reviewed).val > now - 7}),
         never_reviewed_count |-> Len(never),
         never_reviewed |-> Take([i \in DOMAIN never |-> TitleOf(never[i])], 10),
         overdue_pages |-> Take([i \in DOMAIN sorted |-> sorted[i].page], 10),
         recently_reviewed |-> Take(SortByDate(recent), 10),
         total_mcqs |-> TotalMcqs(td),
         avg_confidence |->
             IF td = NoData THEN Ratio(0, 1)
             ELSE Ratio(SumOf(td, DOMAIN td, "confidence"), Cardinality(DOMAIN td) * Milli),
         total_reviewed |-> Cardinality(DOMAIN td)]

(* ---------------------------------------------------------------------- *)
(* The inputs: ledger blocks and note lists the behaviours start from.    *)
(* ---------------------------------------------------------------------- *)
\* a record of n1, 125 days before Today0
OldAlgebra == Para(<<<<"n", "1", "|", "2", "0", "2", "6", "-", "0", "7", "-", "0", "1", "|", "0", ".", "5", "0", "|", "1">>>>)

\* a record of n1 with confidence 0.95, as the updater writes it
SureAlgebra == Para(<<<<"n", "1", "|", "2", "0", "2", "6", "-", "1", "1", "-", "0", "1", "|", "0", ".", "9", "5", "|", "3", "|", "A", "l", "g", "e", "b", "r", "a", "|", "5", " ", "M", "C", "Q", "s">>>>)

\* a record of n2 dated Today0, its text in two runs
TodayBiology == Para(<<<<"n", "2", "|", "2", "0", "2", "6", "-", "1", "1">>, <<"-", "0", "3", "|", "1", ".", "0", "0", "|", "2">>>>)

\* a record of n2 with padded fields
PaddedBiology == Para(<<<<" ", "n", "2", " ", "|", " ", "2", "0", "2", "6", "-", "1", "0", "-", "2", "0", " ", "|", " ", "0", ".", "2", "0", " ", "|", " ", "7", " ">>>>)

\* a record of n2 with empty confidence and count
EmptyFields == Para(<<<<"n", "2", "|", "2", "0", "2", "6", "-", "1", "1", "-", "0", "2", "|", "|">>>>)

\* a text without a pipe
NoPipe == Para(<<<<"l", "o", "g">>>>)

\* three fields only
ThreeFields == Para(<<<<"n", "1", "|", "2", "0", "2", "6", "-", "1", "1", "-", "0", "2", "|", "0", ".", "3", "0">>>>)

\* a confidence that is no number
BadConfidence == Para(<<<<"n", "1", "|", "2", "0", "2", "6", "-", "1", "1", "-", "0", "2", "|", "h", "i", "g", "h", "|", "1">>>>)

\* a count that is no integer
BadCount == Para(<<<<"n", "2", "|", "2", "0", "2", "6", "-", "1", "1", "-", "0", "2", "|", "0", ".", "4", "0", "|", "2", ".", "5">>>>)

\* a date that is no date
BadDate == Para(<<<<"n", "1", "|", "2", "0", "2", "6", "-", "0", "2", "-", "3", "0", "|", "0", ".", "4", "0", "|", "2">>>>)

\* a record of n3 whose confidence has three decimals
ThreeDecimals == Para(<<<<"n", "3", "|", "2", "0", "2", "6", "-", "1", "1", "-", "0", "2", "|", "0", ".", "1", "2", "3", "|", "4">>>>)

\* the blocks an initial ledger page is made of
SampleBlocks == {OldAlgebra, SureAlgebra, TodayBiology, PaddedBiology, EmptyFields,
                 NoPipe, ThreeFields, BadConfidence, BadCount, BadDate,
                 Divider}

RECURSIVE SeqsUpTo(_, _)
SeqsUpTo(S, n) ==
    IF n = 0 THEN {<<>>}
    ELSE LET shorter == SeqsUpTo(S, n - 1)
         IN  shorter \cup {Append(s, x) : s \in shorter, x \in S}

\* every ledger page of at most MaxInitBlocks sample blocks
InitLedgers == SeqsUpTo(SampleBlocks, MaxInitBlocks)

\* the ledger pages the review cycles start from
StartLedgers == {
    <<>>,
    <<SureAlgebra>>,
    <<OldAlgebra, TodayBiology>>,
    <<PaddedBiology, NoPipe, SureAlgebra>>,
    <<EmptyFields, BadDate>>,
    <<SureAlgebra, BadConfidence>>,
    <<ThreeDecimals>>,
    <<BadCount>>
}

\* a page of the database: its id and the runs of its title property
Page(id, title) ==
    [id |-> id, title |-> IF title = <<>> THEN <<>> ELSE <<[plain_text |-> title]>>]

Algebra == Page(<<"n", "1">>, <<"A", "l", "g", "e", "b", "r", "a">>)

Biology == Page(<<"n", "2">>, <<"B", "i", "o", "l", "o", "g", "y">>)

Untitled == Page(<<"n", "3">>, <<>>)

DashboardPage == Page(<<"n", "7">>, <<" ", "R", "e", "w", "i", "s", "e", " ", "D", "a", "s", "h", "b", "o", "a", "r", "d">>)

RewisePage == Page(<<"n", "8">>, <<"R", "e", "w", "i", "s", "e">>)

TrackerPage == Page(<<"n", "9">>, <<"R", "E", "V", "I", "E", "W", " ", "T", "R", "A", "C", "K", "E", "R">>)

\* the note lists get_database_pages returns
PageLists == {
    <<>>,
    <<RewisePage, TrackerPage>>,
    <<Algebra, Biology>>,
    <<TrackerPage, Biology, Algebra, Untitled>>,
    <<DashboardPage, Algebra, RewisePage>>,
    <<TrackerPage, DashboardPage>>
}

\* a note whose title is a fragment of a special title
ReviewNote == Page(<<"n", "5">>, <<"R", "e", "v", "i", "e", "w">>)

\* a note whose title holds a special title
RewiseTips == Page(<<"n", "6">>, <<"R", "e", "w", "i", "s", "e", " ", "T", "i", "p", "s">>)

\* the note lists the dashboard is computed from
DashboardLists == PageLists \cup {<<ReviewNote, Algebra, RewiseTips>>}

\* the notes the driver records a review of
ReviewedPages == {Algebra, Biology, Untitled}

\* the number of questions counted in a generated quiz
McqCounts == {5}

\* the day of the behaviours: 2026-11-03
Today0 == Ymd2Ord(2026, 11, 3)

(* ---------------------------------------------------------------------- *)
(* The state machine.                                                     *)
(*   ledger, today          the blocks of the ledger page, the current     *)
(*                          day (ordinal)                                  *)
(*   op, pages, arg         the last call made, its note list and its      *)
(*                          page_id argument                               *)
(*   readOk                 whether no read request of that call failed    *)
(*   blocks, tracking_data  what that call's get_page_content and decode   *)
(*                          returned                                       *)
(*   outcome, ret, selected how the call ended ("return" or "ValueError"), *)
(*                          the kind of value returned, the page selected  *)
(*   review_count, confidence, entry, appendOk                             *)
(*                          update_page_tracking's locals and whether its  *)
(*                          append request succeeded                       *)
(*   log                    the write requests that call sent, in order    *)
(*   metrics                what calculate_dashboard_metrics returned      *)
(*   database, dashboard, archive                                          *)
(*                          the pages of the database, the blocks of the   *)
(*                          dashboard page, the quizzes on the archive page*)
(*   procs                  the concurrent runs of update_page_tracking    *)
(* ---------------------------------------------------------------------- *)
\* a write request: its kind, the page it goes to, the blocks it carries (or
\* deletes) and whether it succeeded
Request(req, page, bs, ok) == [req |-> req, page |-> page, blocks |-> bs, ok |-> ok]

\* no metrics computed
NoMetrics == [k \in {} |-> 0]

\* no concurrent run
NoProcs == [p \in {} |-> 0]

NoCall ==
    /\ op = "init" /\ pages = <<>> /\ arg = <<>> /\ readOk = TRUE
    /\ blocks = <<>> /\ tracking_data = NoData
    /\ outcome = "return" /\ ret = "None" /\ selected = <<>>
    /\ review_count = 0 /\ confidence = 0 /\ entry = <<>> /\ appendOk = FALSE
    /\ log = <<>> /\ metrics = NoMetrics

\* the pages and runs the codec, the scorer and the updater do not touch
Apart == database = <<>> /\ dashboard = <<>> /\ archive = <<>> /\ procs = NoProcs

Init ==
    /\ ledger \in StartLedgers
    /\ today = Today0
    /\ NoCall
    /\ Apart

\* get_page_tracking_data(tracking_page_id)
GetPageTrackingData(rdOk) ==
    LET bs == get_page_content(ledger, rdOk)
        d == Decode(bs)
    IN  /\ op' = "decode"
        /\ readOk' = rdOk
        /\ blocks' = bs
        /\ tracking_data' = d.data
        /\ outcome' = IF d.raised THEN "ValueError" ELSE "return"
        /\ ret' = IF d.raised THEN "None" ELSE "dict"
        /\ pages' = <<>> /\ arg' = <<>> /\ selected' = <<>>
        /\ review_count' = 0 /\ confidence' = 0 /\ entry' = <<>> /\ appendOk' = FALSE
        /\ log' = <<>> /\ metrics' = NoMetrics
        /\ UNCHANGED <<ledger, today, database, dashboard, archive, procs>>

\* select_page_for_review(pages, tracking_page_id)
SelectPageForReview(ps, rdOk) ==
    LET bs == IF ps = <<>> THEN <<>> ELSE get_page_content(ledger, rdOk)
        d == Decode(bs)
        raises == d.raised \/ SelectRaises(ps, d.data, today)
        sel == IF raises THEN <<>> ELSE Select(ps, d.data, today)
    IN  /\ op' = "select"
        /\ readOk' = (ps = <<>> \/ rdOk)
        /\ pages' = ps
        /\ blocks' = bs
        /\ tracking_data' = d.data
        /\ outcome' = IF raises THEN "ValueError" ELSE "return"
        /\ selected' = sel
        /\ ret' = IF sel = <<>> THEN "None" ELSE "page"
        /\ arg' = <<>>
        /\ review_count' = 0 /\ confidence' = 0 /\ entry' = <<>> /\ appendOk' = FALSE
        /\ log' = <<>> /\ metrics' = NoMetrics
        /\ UNCHANGED <<ledger, today, database, dashboard, archive, procs>>

\* update_page_tracking(tracking_page_id, page_id, page_title, mcq_count)
UpdatePageTracking(page, mcq_count, rdOk, appOk) ==
    LET bs == get_page_content(ledger, rdOk)
        d == Decode(bs)
        count == NextReviewCount(d.data, page.id)
        conf == NextConfidence(d.data, page.id)
        e == Entry(page.id, FormatDate(today), conf, count, TitleOrUntitled(page), mcq_count)
    IN  /\ op' = "update"
        /\ readOk' = rdOk
        /\ arg' = page.id
        /\ blocks' = bs
        /\ tracking_data' = d.data
        /\ pages' = <<>> /\ selected' = <<>>
        /\ ret' = "None"
        /\ IF d.raised
           THEN /\ outcome' = "ValueError"
                /\ review_count' = 0 /\ confidence' = 0 /\ entry' = <<>>
                /\ appendOk' = FALSE
                /\ log' = <<>>
                /\ ledger' = ledger
           ELSE /\ outcome' = "return"
                /\ review_count' = count /\ confidence' = conf /\ entry' = e
                /\ appendOk' = appOk
                /\ log' = <<Request("append", "ledger", <<Para(<<e>>)>>, appOk)>>
                /\ ledger' = IF appOk THEN AppendChildren(ledger, <<Para(<<e>>)>>) ELSE ledger
        /\ metrics' = NoMetrics
        /\ UNCHANGED <<today, database, dashboard, archive, procs>>

\* calculate_dashboard_metrics(pages, tracking_page_id)
CalculateDashboardMetrics(ps, rdOk) ==
    LET bs == get_page_content(ledger, rdOk)
        d == Decode(bs)
        raises == d.raised \/ MetricsRaise(d.data)
    IN  /\ op' = "metrics"
        /\ readOk' = rdOk
        /\ pages' = ps
        /\ blocks' = bs
        /\ tracking_data' = d.data
        /\ outcome' = IF raises THEN "ValueError" ELSE "return"
        /\ ret' = IF raises THEN "None" ELSE "dict"
        /\ metrics' = IF raises THEN NoMetrics ELSE Metrics(ps, bs, d.data, today)
        /\ arg' = <<>> /\ selected' = <<>>
        /\ review_count' = 0 /\ confidence' = 0 /\ entry' = <<>> /\ appendOk' = FALSE
        /\ log' = <<>>
        /\ UNCHANGED <<ledger, today, database, dashboard, archive, procs>>

Decodes == \E rdOk \in BOOLEAN : GetPageTrackingData(rdOk)

Selects == \E ps \in PageLists, rdOk \in BOOLEAN : SelectPageForReview(ps, rdOk)

Updates ==
    /\ Len(ledger) < MaxBlocks
    /\ \E page \in ReviewedPages, n \in McqCounts, rdOk \in BOOLEAN, appOk \in BOOLEAN :
           UpdatePageTracking(page, n, rdOk, appOk)

Aggregates == \E ps \in DashboardLists, rdOk \in BOOLEAN : CalculateDashboardMetrics(ps, rdOk)

\* the review cycles: any calls, in any order, from the start ledgers
Next == Decodes \/ Selects \/ Updates \/ Aggregates

Spec == Init /\ [][Next]_vars

\* the codec and the scorer applied to every ledger page of sample blocks
InitPure == ledger \in InitLedgers /\ today = Today0 /\ NoCall /\ Apart

NextPure == Decodes \/ Selects

SpecPure == InitPure /\ [][NextPure]_vars

\* the updater's calls from an empty ledger page
InitFresh == ledger = <<>> /\ today = Today0 /\ NoCall /\ Apart

NextFresh ==
    /\ Len(ledger) < MaxFreshBlocks
    /\ \E page \in ReviewedPages, n \in McqCounts, rdOk \in BOOLEAN, appOk \in BOOLEAN :
           UpdatePageTracking(page, n, rdOk, appOk)

SpecFresh == InitFresh /\ [][NextFresh]_vars

(* ---------------------------------------------------------------------- *)
(* The driver: one run of main.py.                                        *)
(* ---------------------------------------------------------------------- *)
\* a note whose page holds no text: a divider and a paragraph of one space
Sketches == Page(<<"n", "4">>, <<"S", "k", "e", "t", "c", "h", "e", "s">>)

\* the blocks of the note pages
NoteContent(page_id) ==
    IF page_id = Sketches.id THEN <<Divider, Para(<<<<" ">>>>)>>
    ELSE IF page_id = Biology.id THEN <<Para(<<<<"c", "e">>, <<"l", "l">>>>), Divider>>
    ELSE <<Para(<<<<"a", "x">>>>)>>

\* extract_text of each block of the page selected: the dashboard page holds
\* the rendering (a divider has no text), a note page its blocks
BlockTexts(page_id, board) ==
    IF page_id = DashboardPage.id
    THEN [i \in DOMAIN board |-> IF board[i].type = "divider" THEN <<>> ELSE <<"t">>]
    ELSE [i \in DOMAIN NoteContent(page_id) |-> extract_text(NoteContent(page_id)[i])]

\* " ".join(texts)
RECURSIVE JoinSpaced(_)
JoinSpaced(texts) ==
    IF texts = <<>> THEN <<>>
    ELSE IF Len(texts) = 1 THEN texts[1]
    ELSE texts[1] \o <<" ">> \o JoinSpaced(Tail(texts))

\* whether some page of the list has one of the lower-cased titles
HasTitled(ps, titles) == \E i \in DOMAIN ps : Lower(TitleOf(ps[i])) \in titles

\* get_or_create_*: the database after the page is created when none has the title
GetOrCreate(db, titles, page) == IF HasTitled(db, titles) THEN db ELSE Append(db, page)

\* the requests get_or_create_* sends to create the page
Creation(db, titles, page) ==
    IF HasTitled(db, titles) THEN <<>> ELSE <<Request("create", "database", <<page>>, TRUE)>>

\* the one call of a run that fails, or none
Faults == {"none", "list", "select read", "content read", "generate", "post raises",
           "post refused", "archive", "update read", "append"}

\* the numbers of questions counted in a generated quiz
QuizSizes == {0, 5}

\* ReviewStop without the check of the page's text
ReviewStopUnchecked(page_text, fault, raised) ==
    IF fault = "generate" THEN "generate failed"
    ELSE IF fault = "post raises" THEN "post failed"
    ELSE IF raised THEN "ValueError in update"
    ELSE "return"

\* where a run stops once its page is selected and read
ReviewStop(page_text, fault, raised) ==
    IF Strip(page_text) = <<>> THEN "No content"
    ELSE IF fault = "generate" THEN "generate failed"
    ELSE IF fault = "post raises" THEN "post failed"
    ELSE IF raised THEN "ValueError in update"
    ELSE "return"

\* what a run sends after its page is selected and read: the post, the
\* archive section, the ledger entry, and where it stops
Review(page, page_text, fault, mcq_count, d2, now) ==
    LET count == NextReviewCount(d2.data, page.id)
        conf == NextConfidence(d2.data, page.id)
        e == Entry(page.id, FormatDate(now), conf, count, TitleOrUntitled(page), mcq_count)
        section == [page_title |-> TitleOrUntitled(page), mcq_count |-> mcq_count]
        stop == ReviewStop(page_text, fault, d2.raised)
    IN  [stop |-> stop,
         posted |-> IF stop \in {"post failed", "ValueError in update", "return"}
                    THEN <<Request("post", "webhook", <<>>,
                                   fault \notin {"post raises", "post refused"})>>
                    ELSE <<>>,
         archived |-> IF stop \in {"ValueError in update", "return"}
                      THEN <<Request("append", "archive", <<section>>, fault # "archive")>>
                      ELSE <<>>,
         tracked |-> IF stop = "return"
                     THEN <<Request("append", "ledger", <<Para(<<e>>)>>, fault # "append")>>
                     ELSE <<>>,
         review_count |-> IF stop = "return" THEN count ELSE 0,
         confidence |-> IF stop = "return" THEN conf ELSE 0,
         entry |-> IF stop = "return" THEN e ELSE <<>>]

\* the run's requests applied to a page: the blocks of the successful appends
Applied(page, requests) ==
    IF requests # <<>> /\ requests[1].ok THEN AppendChildren(page, requests[1].blocks)
    ELSE page

\* one run of the driver in which the call named by fault fails
Main(fault, mcq_count) ==
    \E db \in {GetOrCreate(GetOrCreate(database, {<<"r", "e", "w", "i", "s", "e">>}, RewisePage),
                           {<<"r", "e", "v", "i", "e", "w", " ", "t", "r", "a", "c", "k", "e", "r">>}, TrackerPage)} :
    \E ps \in {IF fault = "list" THEN <<>> ELSE db} :
    \E bs \in {IF ps = <<>> THEN <<>> ELSE get_page_content(ledger, fault # "select read")} :
    \E d \in {Decode(bs)} :
    \E raises \in {d.raised \/ SelectRaises(ps, d.data, today)} :
    \E sel \in {IF raises THEN <<>> ELSE Select(ps, d.data, today)} :
    \E r \in {IF ps = <<>> THEN [stop |-> "No pages found"]
              ELSE IF raises THEN [stop |-> "ValueError"]
              ELSE IF sel = <<>> THEN [stop |-> "No suitable page"]
              ELSE Review(sel[1],
                          JoinSpaced(IF fault = "content read" THEN <<>>
                                     ELSE BlockTexts(sel[1].id, dashboard)),
                          fault, mcq_count,
                          Decode(get_page_content(ledger, fault # "update read")),
                          today)} :
    \E sent \in {IF "posted" \in DOMAIN r THEN r
                 ELSE [posted |-> <<>>, archived |-> <<>>, tracked |-> <<>>,
                       review_count |-> 0, confidence |-> 0, entry |-> <<>>]} :
        /\ op' = "main"
        /\ pages' = ps
        /\ readOk' = (fault \notin {"select read", "update read"})
        /\ blocks' = bs
        /\ tracking_data' = d.data
        /\ selected' = sel
        /\ outcome' = r.stop
        /\ ret' = "None"
        /\ arg' = IF sel = <<>> THEN <<>> ELSE sel[1].id
        /\ review_count' = sent.review_count
        /\ confidence' = sent.confidence
        /\ entry' = sent.entry
        /\ appendOk' = (sent.tracked # <<>> /\ sent.tracked[1].ok)
        /\ log' = Creation(database, {<<"r", "e", "w", "i", "s", "e">>}, RewisePage)
                  \o Creation(GetOrCreate(database, {<<"r", "e", "w", "i", "s", "e">>}, RewisePage),
                              {<<"r", "e", "v", "i", "e", "w", " ", "t", "r", "a", "c", "k", "e", "r">>}, TrackerPage)
                  \o sent.posted \o sent.archived \o sent.tracked
        /\ database' = db
        /\ archive' = Applied(archive, sent.archived)
        /\ ledger' = Applied(ledger, sent.tracked)
        /\ metrics' = NoMetrics
        /\ UNCHANGED <<today, dashboard, procs>>

\* the databases the runs start from
Databases == {
    <<>>,
    <<RewisePage, TrackerPage, Algebra, Biology>>,
    <<TrackerPage, Sketches, Algebra, RewisePage>>,
    <<RewisePage, TrackerPage, DashboardPage, Algebra>>,
    <<Untitled, Algebra, RewisePage, TrackerPage>>
}

\* the runs of the driver, each with at most one failing call
Runs == \E fault \in Faults, n \in QuizSizes : Main(fault, n)

InitMain ==
    /\ ledger = <<>> /\ today = Today0 /\ NoCall
    /\ database \in Databases
    /\ dashboard = <<>> /\ archive = <<>> /\ procs = NoProcs

NextMain == Len(ledger) < MaxRunBlocks /\ Len(archive) < MaxRunBlocks /\ Runs

SpecMain == InitMain /\ [][NextMain]_vars

(* ---------------------------------------------------------------------- *)
(* The dashboard: create_progress_bar, the rendering and update_dashboard. *)
(* ---------------------------------------------------------------------- *)
\* the width of a progress bar, in cells
BarWidth == 20

\* the width of the longest bar of a bar chart
max_width == 30

\* the most blocks one append request carries
chunk_size == 100

\* c * n: n copies of c, none when n <= 0
Repeat(c, n) == [i \in 1..(IF n > 0 THEN n ELSE 0) |-> c]

\* int(num / den * width): the quotient with its fraction cut off
Cells(num, den, width) ==
    IF num >= 0 THEN (num * width) \div den ELSE -(((-num) * width) \div den)

\* create_progress_bar: the bar, filled cells "#" then empty cells "."
create_progress_bar(percentage) ==
    LET filled == Cells(percentage.num, percentage.den, BarWidth)
        empty == BarWidth - filled
    IN  Repeat("#", filled) \o Repeat(".", empty)

\* create_bar_chart: one line per (label, value), its bar proportional to
\* the largest value
create_bar_chart(data) ==
    LET max_value == CHOOSE v \in {data[i][2] : i \in DOMAIN data} :
                         \A j \in DOMAIN data : data[j][2] <= v
    IN  [i \in DOMAIN data |->
            [type |-> "paragraph", label |-> data[i][1], value |-> data[i][2],
             bar |-> Repeat("#", IF max_value > 0
                                 THEN Cells(data[i][2], max_value, max_width) ELSE 0)]]

\* a block of fixed text
Fixed(type, label) == [type |-> type, label |-> label]

RuleBlock == [type |-> "divider"]

\* a callout of one counter
Callout(label, value) == [type |-> "callout", label |-> label, value |-> value]

\* the blocks of an itemized list, a placeholder paragraph for an empty list
Itemized(items, label) ==
    IF items # <<>>
    THEN [i \in DOMAIN items |-> [type |-> "bulleted_list_item", label |-> label,
                                  item |-> items[i]]]
    ELSE <<Fixed("paragraph", label)>>

\* children: the blocks update_dashboard builds from the metrics
Render(m) ==
    <<Fixed("heading_1", "Rewise Dashboard"), Fixed("paragraph", "Last Updated"),
      RuleBlock, Fixed("heading_2", "Key Metrics"),
      Callout("Total Pages", m.total_pages),
      Callout("Pages Reviewed (This Week)", m.pages_reviewed_this_week),
      Callout("Total Reviewed", m.total_reviewed),
      Callout("Never Reviewed", m.never_reviewed_count),
      Callout("Total MCQs Generated", m.total_mcqs),
      [type |-> "callout", label |-> "Average Confidence", ratio |-> m.avg_confidence],
      RuleBlock, Fixed("heading_2", "Visual Analytics"),
      [type |-> "paragraph", label |-> "Review Progress",
       bar |-> create_progress_bar(IF m.total_pages > 0
                                   THEN Ratio(m.total_reviewed, m.total_pages)
                                   ELSE Ratio(0, 1))],
      [type |-> "paragraph", label |-> "Average Confidence",
       bar |-> create_progress_bar(m.avg_confidence)],
      Fixed("paragraph", "Weekly Activity")>>
    \o create_bar_chart(<<<<"This Week", m.pages_reviewed_this_week>>,
                          <<"Total Reviewed", m.total_reviewed>>,
                          <<"Never Reviewed", m.never_reviewed_count>>>>)
    \o <<Fixed("paragraph", "Review Status Distribution")>>
    \o create_bar_chart(<<<<"Reviewed", m.total_reviewed>>,
                          <<"Never Reviewed", m.never_reviewed_count>>,
                          <<"Needs Review", Len(m.overdue_pages)>>>>)
    \o <<RuleBlock, Fixed("heading_2", "Recently Reviewed")>>
    \o Itemized(m.recently_reviewed, "No reviews yet")
    \o <<RuleBlock, Fixed("heading_2", "Most Overdue Pages")>>
    \o Itemized(m.overdue_pages, "All reviews are up to date")
    \o <<RuleBlock, Fixed("heading_2", "Never Reviewed Pages")>>
    \o Itemized([i \in DOMAIN m.never_reviewed |-> [title |-> m.never_reviewed[i]]],
                "All pages have been reviewed")
    \o <<RuleBlock, Fixed("paragraph", "Tip")>>

\* children[i:i + size] for i in range(0, len(children), size)
Chunks(children, size) ==
    [k \in 1..((Len(children) + size - 1) \div size) |->
        SubSeq(children, (k - 1) * size + 1, Min(k * size, Len(children)))]

\* ChunkWrites going on after the chunk whose request fails
ChunkWritesPastFailure(chunks, failAt) ==
    [k \in DOMAIN chunks |-> Request("append", "dashboard", chunks[k], k # failAt)]

\* the append requests of the chunks: every chunk when failAt is 0, else
\* the chunks up to failAt, whose request fails
ChunkWrites(chunks, failAt) ==
    [k \in 1..(IF failAt = 0 THEN Len(chunks) ELSE failAt) |->
        Request("append", "dashboard", chunks[k], k # failAt)]

\* the blocks of the successful requests, in order
RECURSIVE Written(_)
Written(requests) ==
    IF requests = <<>> THEN <<>>
    ELSE (IF requests[1].ok THEN requests[1].blocks ELSE <<>>) \o Written(Tail(requests))

\* the one call of a dashboard refresh that fails, or none
BoardFaults == {"none", "list", "dashboard read", "delete", "ledger read", "write"}

\* update_dashboard(dashboard_page_id, pages, tracking_page_id), in which the
\* call named by fault fails: the delete of the first block, or the write of
\* one of the chunks
UpdateDashboard(ps, fault) ==
    \E found \in {get_page_content(dashboard, fault # "dashboard read")} :
    \E deletes \in {[i \in DOMAIN found |->
                        Request("delete", "dashboard", <<found[i]>>,
                                ~(fault = "delete" /\ i = 1))]} :
    \E left \in {IF fault = "dashboard read" THEN dashboard
                 ELSE IF fault = "delete" THEN Take(dashboard, 1) ELSE <<>>} :
    \E bs \in {get_page_content(ledger, fault # "ledger read")} :
    \E d \in {Decode(bs)} :
    \E raises \in {d.raised \/ MetricsRaise(d.data)} :
    \E m \in {IF raises THEN NoMetrics ELSE Metrics(ps, bs, d.data, today)} :
    \E chunks \in {IF raises THEN <<>> ELSE Chunks(Render(m), chunk_size)} :
    \E failAt \in (IF fault = "write" /\ chunks # <<>> THEN DOMAIN chunks ELSE {0}) :
    \E writes \in {ChunkWrites(chunks, failAt)} :
        /\ op' = "dashboard"
        /\ pages' = ps
        /\ readOk' = (fault \notin {"dashboard read", "ledger read"})
        /\ blocks' = bs
        /\ tracking_data' = d.data
        /\ metrics' = m
        /\ outcome' = IF raises THEN "ValueError" ELSE "return"
        /\ ret' = IF raises THEN "None" ELSE IF failAt = 0 THEN "True" ELSE "False"
        /\ log' = deletes \o writes
        /\ dashboard' = left \o Written(writes)
        /\ arg' = <<>> /\ selected' = <<>>
        /\ review_count' = 0 /\ confidence' = 0 /\ entry' = <<>> /\ appendOk' = FALSE
        /\ UNCHANGED <<ledger, today, archive, procs>>

\* one run of dashboard.py: the pages listed, the ledger and dashboard pages
\* found or created, the dashboard updated
DashboardMain(fault) ==
    \E ps \in {IF fault = "list" THEN <<>> ELSE database} :
        /\ UpdateDashboard(ps, fault)
        /\ database' = GetOrCreate(GetOrCreate(database, {<<"r", "e", "v", "i", "e", "w", " ", "t", "r", "a", "c", "k", "e", "r">>}, TrackerPage),
                                   {<<" ", "r", "e", "w", "i", "s", "e", " ", "d", "a", "s", "h", "b", "o", "a", "r", "d">>,
                                    <<"r", "e", "w", "i", "s", "e", " ", "d", "a", "s", "h", "b", "o", "a", "r", "d">>},
                                   DashboardPage)

\* the refreshes of the dashboard between runs of the driver that succeed
Refreshes == \E fault \in BoardFaults : DashboardMain(fault)

Reviews == \E n \in QuizSizes : Main("none", n)

NextBoard ==
    \/ Len(ledger) < MaxBoardBlocks /\ Reviews
    \/ Len(dashboard) < MaxDashboardBlocks /\ Refreshes

SpecBoard == InitMain /\ [][NextBoard]_vars

\* a record of n2 with full confidence, 100 days before Today0
HundredDays == Para(<<<<"n", "2", "|", "2", "0", "2", "6", "-", "0", "7", "-", "2", "6", "|", "1", ".", "0", "0", "|", "9">>>>)

\* ledger pages that hold stale records of two of the three notes
CycleLedgers == {
    <<SureAlgebra, PaddedBiology>>,
    <<SureAlgebra, NoPipe, PaddedBiology>>,
    <<OldAlgebra, PaddedBiology>>,
    <<ThreeDecimals, EmptyFields>>,
    <<HundredDays, SureAlgebra>>
}

\* databases of three notes and the structural pages
CycleDatabases == {
    <<RewisePage, TrackerPage, Algebra, Biology, Untitled>>,
    <<Untitled, Biology, Algebra, TrackerPage, RewisePage>>,
    <<Biology, Untitled, RewisePage, Algebra, TrackerPage>>
}

\* one run of the driver from a ledger of two stale records
InitCycle ==
    /\ ledger \in CycleLedgers /\ today = Today0 /\ NoCall
    /\ database \in CycleDatabases
    /\ dashboard = <<>> /\ archive = <<>> /\ procs = NoProcs

NextCycle == op = "init" /\ Runs

SpecCycle == InitCycle /\ [][NextCycle]_vars

(* ====================================================================== *)
(* The claims.                                                            *)
(* ====================================================================== *)
\* the titles of the structural pages: the quiz archive, the ledger and the
\* dashboard (looked up under both spellings, created with the leading space)
ReservedTitles == {<<"r", "e", "w", "i", "s", "e">>,
                   <<"r", "e", "v", "i", "e", "w", " ", "t", "r", "a", "c", "k", "e", "r">>,
                   <<"r", "e", "w", "i", "s", "e", " ", "d", "a", "s", "h", "b", "o", "a", "r", "d">>,
                   <<" ", "r", "e", "w", "i", "s", "e", " ", "d", "a", "s", "h", "b", "o", "a", "r", "d">>}

IsReserved(page) == Lower(TitleOf(page)) \in ReservedTitles

\* the positions of the note list the scorer scores
EligibleAt(ps) ==
    {i \in DOMAIN ps : Lower(TitleOf(ps[i])) \notin {<<"r", "e", "w", "i", "s", "e">>, <<"r", "e", "v", "i", "e", "w", " ", "t", "r", "a", "c", "k", "e", "r">>}}

\* a call of select_page_for_review has ended
Selected == op = "select"

\* C1: given a note list with at least one non-reserved note,
\* select_page_for_review never returns a note whose title, lower-cased, is
\* that of the quiz archive, the ledger or the dashboard page.
C1_NeverSelectsReserved ==
    (/\ Selected /\ readOk
     /\ \E i \in DOMAIN pages : ~IsReserved(pages[i])
     /\ selected # <<>>)
    => ~IsReserved(selected[1])

\* the score the claim states for a note with a ledger entry, in thousandths
StatedScore(e, now) ==
    (now - Strptime(e.last_reviewed).val) * 10 * Milli + (Milli - e.confidence) * 50

\* the eligible positions with no ledger entry, and those with one
Unreviewed(ps, td) == {i \in EligibleAt(ps) : ps[i].id \notin DOMAIN td}

Reviewed(ps, td) == {i \in EligibleAt(ps) : ps[i].id \in DOMAIN td}

\* the case of C2: the ledger was decoded, some eligible note has no entry,
\* and every eligible note with an entry scores below 1000
UnreviewedOutranks ==
    /\ Selected
    /\ ~Decode(blocks).raised
    /\ Unreviewed(pages, tracking_data) # {}
    /\ \A j \in Reviewed(pages, tracking_data) :
           /\ Strptime(tracking_data[pages[j].id].last_reviewed).ok
           /\ StatedScore(tracking_data[pages[j].id], today) < 1000 * Milli

\* C2: when some eligible note has no ledger entry and every eligible note
\* with an entry scores days*10 + (1 - confidence)*50 < 1000, the call
\* returns a note with no ledger entry; with exactly one such note, that one.
C2_UnreviewedSelected ==
    UnreviewedOutranks
    => /\ outcome = "return"
       /\ selected # <<>>
       /\ \E i \in Unreviewed(pages, tracking_data) : selected[1] = pages[i]
       /\ \A i \in Unreviewed(pages, tracking_data) :
              Unreviewed(pages, tracking_data) = {i} => selected[1] = pages[i]

\* C2's case with a reviewed eligible note first in the list and passed over
C2_Witness ==
    /\ UnreviewedOutranks
    /\ 1 \in Reviewed(pages, tracking_data)
    /\ Cardinality(Unreviewed(pages, tracking_data)) = 1
    /\ selected # <<>> /\ selected[1] # pages[1]

\* C3: select_page_for_review returns none exactly when no note of its input
\* is eligible, and returns one of the eligible notes whenever there is one.
C3_NoneIffNoEligible ==
    (Selected /\ readOk)
    => /\ (outcome = "return" /\ selected = <<>>) <=> EligibleAt(pages) = {}
       /\ EligibleAt(pages) # {}
          => /\ outcome = "return"
             /\ selected # <<>>
             /\ \E i \in EligibleAt(pages) : selected[1] = pages[i]

\* a call of update_page_tracking has computed and sent its record
Updated == op = "update" /\ outcome = "return"

\* x (in thousandths) rounded to hundredths, as the entry writes it
Hundredths(x) == ((x + 5) \div 10) * 10

\* C4: the record update_page_tracking appends for note_id has, for a note
\* without a prior record in the decoded ledger, review_count 1 and
\* confidence 0.1, and for a prior record (c, n), review_count n + 1 and
\* confidence min(c + 0.1, 1.0): 1.0 for c = 0.95, never above 1.0.  The
\* entry sent is that record under note_id, dated today, written "%.2f".
C4_RecordComputed ==
    Updated
    => LET td == tracking_data
           sent == ParseBlock(Para(<<entry>>))
       IN  /\ arg \notin DOMAIN td => review_count = 1 /\ confidence * 10 = Milli
           /\ arg \in DOMAIN td
              => /\ review_count = td[arg].review_count + 1
                 /\ confidence * 10 = (IF td[arg].confidence * 10 + Milli > 10 * Milli
                                       THEN 10 * Milli
                                       ELSE td[arg].confidence * 10 + Milli)
                 /\ td[arg].confidence * 100 = 95 * Milli => confidence = Milli
           /\ confidence <= Milli
           /\ sent.kind = "record" /\ sent.id = arg
           /\ sent.rec = [last_reviewed |-> FormatDate(today),
                          confidence |-> Hundredths(confidence),
                          review_count |-> review_count]
           /\ appendOk => ledger # <<>> /\ ledger[Len(ledger)] = Para(<<entry>>)
           /\ appendOk /\ readOk => ledger = Append(blocks, Para(<<entry>>))

\* C4's case: a prior confidence of 0.95 clamped to 1.0, and appended
C4_Witness ==
    /\ Updated /\ readOk /\ appendOk
    /\ arg \in DOMAIN tracking_data
    /\ tracking_data[arg].confidence * 100 = 95 * Milli
    /\ confidence = Milli
    /\ ledger[Len(ledger)] = Para(<<entry>>)

\* the ledger as a successful read decodes it
Tracked(page) == Decode(page).data

\* C5: from an empty ledger, after any update_page_tracking calls every note
\* of the decoded ledger has review_count >= 1 and 0.1 <= confidence <= 1.0,
\* and no call makes the decoded review_count of a note smaller.
C5_CountsNeverDecrease ==
    /\ [](\A id \in DOMAIN Tracked(ledger) :
              /\ Tracked(ledger)[id].review_count >= 1
              /\ Tracked(ledger)[id].confidence * 10 >= Milli
              /\ Tracked(ledger)[id].confidence <= Milli)
    /\ [][\A id \in DOMAIN Tracked(ledger) :
              /\ id \in DOMAIN Tracked(ledger')
              /\ Tracked(ledger')[id].review_count >= Tracked(ledger)[id].review_count]_vars

\* C6: update_page_tracking returns success exactly when its append
\* succeeded and failure when it failed, without raising.
C6_ReportsAppendResult ==
    (op = "update" /\ readOk /\ ~Decode(blocks).raised)
    => /\ outcome = "return"
       /\ ret = (IF appendOk THEN "True" ELSE "False")

\* the pipe-delimited fields of a block's text
Fields(block) == Split(extract_text(block), "|")

\* a block that encodes a record: at least four fields
IsRecordBlock(block) == Len(Fields(block)) >= 4

\* the note_id a record block names
IdOf(block) == Strip(Fields(block)[1])

\* a confidence or count field: empty counts zero
FieldFloat(s) == IF Strip(s) = <<>> THEN 0 ELSE ParseFloat(Strip(s)).val

FieldInt(s) == IF Strip(s) = <<>> THEN 0 ELSE ParseInt(Strip(s)).val

\* the record blocks' numeric fields are empty or numbers
NumbersParse(bs) ==
    \A j \in DOMAIN bs :
        IsRecordBlock(bs[j])
        => /\ Strip(Fields(bs[j])[3]) # <<>> => ParseFloat(Strip(Fields(bs[j])[3])).ok
           /\ Strip(Fields(bs[j])[4]) # <<>> => ParseInt(Strip(Fields(bs[j])[4])).ok

\* the position of the last record block of bs that names id
LastOf(bs, id) ==
    CHOOSE j \in DOMAIN bs :
        /\ IsRecordBlock(bs[j]) /\ IdOf(bs[j]) = id
        /\ \A k \in DOMAIN bs : IsRecordBlock(bs[k]) /\ IdOf(bs[k]) = id => k <= j

\* a call of get_page_tracking_data has returned a mapping
Decoded == op = "decode" /\ outcome = "return"

\* C7: the decoded ledger has exactly one entry per note_id that is the
\* first field of some record block, and it carries the last_reviewed,
\* confidence and review_count of the last such block.
C7_LastWriteWins ==
    Decoded
    => /\ DOMAIN tracking_data
            = {IdOf(blocks[j]) : j \in {k \in DOMAIN blocks : IsRecordBlock(blocks[k])}}
       /\ \A id \in DOMAIN tracking_data :
              LET f == Fields(blocks[LastOf(blocks, id)])
              IN  tracking_data[id] = [last_reviewed |-> Strip(f[2]),
                                       confidence |-> FieldFloat(f[3]),
                                       review_count |-> FieldInt(f[4])]

\* C7's case: two record blocks of one note with different values
C7_Witness ==
    /\ Decoded /\ readOk
    /\ \E j, k \in DOMAIN blocks :
           /\ j < k
           /\ IsRecordBlock(blocks[j]) /\ IsRecordBlock(blocks[k])
           /\ IdOf(blocks[j]) = IdOf(blocks[k])
           /\ Fields(blocks[j])[2] # Fields(blocks[k])[2]
           /\ FieldFloat(Fields(blocks[j])[3]) # FieldFloat(Fields(blocks[k])[3])
           /\ tracking_data[IdOf(blocks[k])].confidence = FieldFloat(Fields(blocks[k])[3])

\* C8: decode ignores every block with no pipe or fewer than four fields (the
\* mapping is that of the record blocks alone), and an empty confidence or
\* count field of a record block yields 0.0 or 0.
C8_ShortBlocksIgnored ==
    (op = "decode" /\ NumbersParse(blocks))
    => /\ outcome = "return"
       /\ tracking_data = Decode(SelectSeq(blocks, IsRecordBlock)).data
       /\ \A id \in DOMAIN tracking_data :
              LET f == Fields(blocks[LastOf(blocks, id)])
              IN  /\ Strip(f[3]) = <<>> => tracking_data[id].confidence = 0
                  /\ Strip(f[4]) = <<>> => tracking_data[id].review_count = 0

\* C8's case: a record with empty confidence and count, then a block with a
\* pipe and fewer than four fields that adds no entry
C8_Witness ==
    /\ Decoded /\ Len(blocks) = 2
    /\ IsRecordBlock(blocks[1])
    /\ Strip(Fields(blocks[1])[3]) = <<>> /\ Strip(Fields(blocks[1])[4]) = <<>>
    /\ Contains(extract_text(blocks[2]), "|") /\ ~IsRecordBlock(blocks[2])
    /\ DOMAIN tracking_data = {IdOf(blocks[1])}
    /\ tracking_data[IdOf(blocks[1])].confidence = 0
    /\ tracking_data[IdOf(blocks[1])].review_count = 0

\* C9: a ledger line with at least four fields whose confidence or count is
\* no number, or whose date is no date, aborts neither decode nor the
\* scorer: the call still returns.
C9_MalformedLineTolerated ==
    (op \in {"decode", "select"} /\ readOk) => outcome = "return"

\* C10: a failed read of the ledger page reaches the caller of decode as a
\* result other than that of a successful read of an empty ledger.
C10_ReadFailureReported ==
    (op \in {"decode", "select", "update"} /\ ~readOk /\ ledger # <<>>)
    => ~(outcome = "return" /\ tracking_data = NoData)

\* a is a prefix of b
IsPrefix(a, b) == Len(a) <= Len(b) /\ SubSeq(b, 1, Len(a)) = a

\* C11: the ledger page is append-only.  Every call leaves the blocks it
\* found as a prefix of the blocks it leaves; get_page_tracking_data,
\* select_page_for_review and calculate_dashboard_metrics send no write and
\* leave the page as it was; update_page_tracking never sends more than one
\* append, of exactly one block, and a call that returns has sent exactly one,
\* which, when it succeeds, adds that block at the end and nothing else.
C11_AppendOnly ==
    [][/\ IsPrefix(ledger, ledger')
       /\ op' \in {"decode", "select", "metrics"} => ledger' = ledger /\ log' = <<>>
       /\ op' = "update"
          => /\ Len(log') <= 1
             /\ \A i \in DOMAIN log' :
                    /\ log'[i].req = "append" /\ log'[i].page = "ledger"
                    /\ Len(log'[i].blocks) = 1
             /\ outcome' = "return" => Len(log') = 1
             /\ ledger' = (IF log' # <<>> /\ log'[1].ok
                           THEN ledger \o log'[1].blocks ELSE ledger)]_vars

\* C11's case: an update of a ledger page that held blocks has appended one
C11_Witness ==
    /\ op = "update" /\ appendOk /\ readOk
    /\ blocks # <<>>
    /\ Len(log) = 1 /\ log[1].ok
    /\ ledger = blocks \o log[1].blocks

\* the quiz item count a record block carries: the number its sixth field
\* starts with ("5 MCQs"), 0 for a block without that field
ItemCountOf(block) ==
    LET f == Fields(block)
        n == ParseInt(Split(Strip(f[6]), " ")[1])
    IN  IF Len(f) >= 6 /\ n.ok THEN n.val ELSE 0

\* the item count of each decoded record: that of the last block of its note
ItemCounts(bs) ==
    [id \in DOMAIN Decode(bs).data |-> [items |-> ItemCountOf(bs[LastOf(bs, id)])]]

\* C13: calculate_dashboard_metrics returns total_mcqs equal to the sum, over
\* the decoded ledger records, of the quiz item count written with the record
\* (0 for a record without one).
C13_TotalMcqsSumsItems ==
    (op = "metrics" /\ outcome = "return" /\ readOk)
    => metrics.total_mcqs = SumOf(ItemCounts(blocks), DOMAIN ItemCounts(blocks), "items")

\* C14: the notes calculate_dashboard_metrics counts (regular_pages,
\* total_pages) are exactly the notes select_page_for_review scores: a note
\* is excluded by one if and only if it is excluded by the other.
C14_SameEligibleNotes ==
    (op = "metrics" /\ outcome = "return")
    => /\ metrics.total_pages = Len(Scored(pages))
       /\ \A i \in DOMAIN pages : MatchesSpecial(TitleOf(pages[i])) <=> IsSpecial(pages[i])

\* the pages a run's side effects went to, in order: the chat webhook, the
\* quiz archive, the ledger (the structural pages it created left out)
Effects(requests) ==
    LET sent == SelectSeq(requests, LAMBDA q : q.req # "create")
    IN  [i \in DOMAIN sent |-> sent[i].page]

\* the selected page's text is blank
BlankSelected(sel, board) ==
    sel # <<>> /\ Strip(JoinSpaced(BlockTexts(sel[1].id, board))) = <<>>

\* C16: a run of the driver whose note list is empty, which selects no note,
\* or whose selected note has blank text, sends no chat post and no append
\* and leaves the archive and the ledger as they were; every run sends its
\* side effects in the order chat post, archive append, ledger append, each
\* at most once, and a run that reaches its end has sent all three.
C16_AbortsBeforeEffects ==
    [][op' = "main"
       => /\ (pages' = <<>> \/ selected' = <<>> \/ BlankSelected(selected', dashboard))
             => /\ Effects(log') = <<>>
                /\ ledger' = ledger /\ archive' = archive
          /\ IsPrefix(Effects(log'), <<"webhook", "archive", "ledger">>)
          /\ outcome' = "return" => Effects(log') = <<"webhook", "archive", "ledger">>
          /\ IsPrefix(ledger, ledger') /\ Len(ledger') <= Len(ledger) + 1
          /\ IsPrefix(archive, archive') /\ Len(archive') <= Len(archive) + 1]_vars

\* C16's case: the note selected holds no text and the run has sent nothing
C16_Witness ==
    /\ op = "main" /\ readOk
    /\ selected = <<Sketches>>
    /\ outcome = "No content"
    /\ Effects(log) = <<>>

\* a full cycle has ended: a run whose reads succeeded has appended its record
CycleDone == op = "main" /\ outcome = "return" /\ readOk /\ appendOk

\* the ledger page before the cycle's append
Before == SubSeq(ledger, 1, Len(ledger) - 1)

\* the cycle left one new record, of a note that had none, and the decoded
\* records of the other notes as they were
OneNewRecord ==
    /\ ledger = Append(Before, Para(<<entry>>))
    /\ IsRecordBlock(ledger[Len(ledger)])
    /\ IdOf(ledger[Len(ledger)]) \notin DOMAIN Tracked(Before)
    /\ \E i \in EligibleAt(database) : database[i].id = IdOf(ledger[Len(ledger)])
    /\ DOMAIN Tracked(ledger) = DOMAIN Tracked(Before) \cup {IdOf(ledger[Len(ledger)])}
    /\ \A id \in DOMAIN Tracked(Before) : Tracked(ledger)[id] = Tracked(Before)[id]

\* every record of the ledger page before the cycle scores below 1000
StaleBelowSentinel ==
    \A id \in DOMAIN Tracked(Before) :
        StatedScore(Tracked(Before)[id], today) < NeverReviewedScore * Milli

Deletes(requests) == SelectSeq(requests, LAMBDA q : q.req = "delete")

Appends(requests) == SelectSeq(requests, LAMBDA q : q.req = "append")

\* the blocks the requests carry, one after the other
RECURSIVE Carried(_)
Carried(requests) ==
    IF requests = <<>> THEN <<>> ELSE requests[1].blocks \o Carried(Tail(requests))

\* the chunk loop on children with chunks of the given size, whichever chunk
\* fails: chunks of at most size blocks that make up children in order, the
\* requests a prefix of them that ends at the first failure
ChunkLoopStops(children, size) ==
    LET chunks == Chunks(children, size)
    IN  /\ Carried(ChunkWrites(chunks, 0)) = children
        /\ \A k \in DOMAIN chunks : Len(chunks[k]) \in 1..size
        /\ \A failAt \in DOMAIN chunks :
               LET w == ChunkWrites(chunks, failAt)
               IN  /\ Len(w) = failAt
                   /\ \A k \in DOMAIN w : w[k].blocks = chunks[k] /\ (w[k].ok <=> k < failAt)

\* C15: update_dashboard sends every delete of a block it found on the
\* dashboard page before its first write; it writes the rendering in
\* consecutive chunks of at most 100 blocks, in order; after the first chunk
\* whose write fails it writes no other and returns False, so the chunks
\* written are a prefix of the rendering; it returns True only when every
\* chunk was written.
C15_WriteProtocol ==
    [][op' = "dashboard"
       => LET dels == Deletes(log')
              apps == Appends(log')
          IN  /\ log' = dels \o apps
              /\ Carried(dels) = (IF Len(dels) > 0 THEN dashboard ELSE <<>>)
              /\ \A k \in DOMAIN apps :
                     /\ apps[k].page = "dashboard"
                     /\ Len(apps[k].blocks) \in 1..chunk_size
                     /\ k < Len(apps) => apps[k].ok /\ Len(apps[k].blocks) = chunk_size
              /\ outcome' = "return"
                 => /\ IsPrefix(Carried(apps), Render(metrics'))
                    /\ ret' = (IF \A k \in DOMAIN apps : apps[k].ok THEN "True" ELSE "False")
                    /\ ret' = "True" => Written(apps) = Render(metrics')
                    /\ ChunkLoopStops(Render(metrics'), 16)
              /\ IsPrefix(Written(apps), Carried(apps))
              /\ \E kept \in {<<>>, Take(dashboard, 1), dashboard} :
                     dashboard' = kept \o Written(apps)]_vars

\* C15's case: blocks found and deleted, then the write of the rendering fails
C15_Witness ==
    /\ op = "dashboard" /\ outcome = "return"
    /\ Deletes(log) # <<>>
    /\ Appends(log) # <<>> /\ ~Appends(log)[Len(Appends(log))].ok
    /\ ret = "False"

\* the filled and the empty cells of a bar
Filled(bar) == Len(SelectSeq(bar, LAMBDA c : c = "#"))

\* a gauge of the ratio num / den: 20 cells, floor(ratio * 20) of them filled
GaugeOf(bar, num, den) ==
    /\ 0 <= num /\ num <= den
    /\ Len(bar) = 20
    /\ Filled(bar) = (num * 20) \div den

\* C19: for the ledgers the program's own runs write, each of the two gauges
\* update_dashboard renders (total_reviewed / total_pages and the average
\* confidence) is a bar of exactly 20 cells, floor(ratio * 20) of them filled,
\* its ratio within [0, 1].
C19_GaugesTwentyCells ==
    (op = "dashboard" /\ outcome = "return" /\ readOk)
    => /\ GaugeOf(Render(metrics)[13].bar,
                  IF metrics.total_pages > 0 THEN metrics.total_reviewed ELSE 0,
                  IF metrics.total_pages > 0 THEN metrics.total_pages ELSE 1)
       /\ GaugeOf(Render(metrics)[14].bar,
                  metrics.avg_confidence.num, metrics.avg_confidence.den)
       /\ \E i \in DOMAIN log : log[i].req = "append" /\ Len(log[i].blocks) >= 14
                                 /\ log[i].blocks[13] = Render(metrics)[13]
                                 /\ log[i].blocks[14] = Render(metrics)[14]

\* the scores of the eligible pages of the call, in the order of the list
ScoresOf(ps, td, now) ==
    [i \in DOMAIN Scored(ps) |-> ScoreOf(Scored(ps)[i], td, now)]

\* the positions of the maximum score
Maxima(scores) == {i \in DOMAIN scores : \A j \in DOMAIN scores : scores[j] <= scores[i]}

\* C17: select_page_for_review returns, of the eligible pages that have the
\* maximum score, the one that comes first in the list it was given.
C17_FirstOfMaxima ==
    (op = "select" /\ outcome = "return" /\ Scored(pages) # <<>>)
    => LET top == Maxima(ScoresOf(pages, tracking_data, today))
       IN  selected = <<Scored(pages)[CHOOSE i \in top : \A j \in top : i <= j]>>

\* C17's case: two never-reviewed pages share the maximum, the later one of
\* the list is not the one returned
C17_Witness ==
    /\ op = "select" /\ outcome = "return"
    /\ \E i, j \in Maxima(ScoresOf(pages, tracking_data, today)) :
           /\ i < j
           /\ Scored(pages)[i].id \notin DOMAIN tracking_data
           /\ Scored(pages)[j].id \notin DOMAIN tracking_data
           /\ selected = <<Scored(pages)[i]>>
           /\ selected # <<Scored(pages)[j]>>

(* ---------------------------------------------------------------------- *)
(* Two runs at once: update_page_tracking as its two requests, the GET of *)
(* the ledger page (line 212) and the PATCH that appends (line 239).      *)
(* procs[p] is the position and the locals of run p.                      *)
(* ---------------------------------------------------------------------- *)
Runners == {1, 2}

\* a run that has not called update_page_tracking yet
Idle ==
    [pc |-> "start", page_id |-> <<>>, readOk |-> FALSE, blocks |-> <<>>, at |-> 0,
     review_count |-> 0, confidence |-> 0, entry |-> <<>>, appendOk |-> FALSE]

\* PendingChildren computed from the ledger page as it is when the PATCH is sent
PendingFromCurrent(proc, current, now) ==
    LET d == Decode(current)
        e == Split(proc.entry, "|")
    IN  IF d.raised THEN <<Para(<<proc.entry>>)>>
        ELSE <<Para(<<Entry(proc.page_id, FormatDate(now),
                            NextConfidence(d.data, proc.page_id),
                            NextReviewCount(d.data, proc.page_id),
                            e[5], ItemCountOf(Para(<<proc.entry>>)))>>)>>

\* the children of the PATCH: the entry formatted after the read (line 224)
PendingChildren(proc, current, now) == <<Para(<<proc.entry>>)>>

\* lines 212-224 of run p: read the ledger page, compute the new record
ReadLedger(p, page, mcq_count, rdOk) ==
    LET bs == get_page_content(ledger, rdOk)
        d == Decode(bs)
        count == NextReviewCount(d.data, page.id)
        conf == NextConfidence(d.data, page.id)
        e == Entry(page.id, FormatDate(today), conf, count, TitleOrUntitled(page), mcq_count)
    IN  /\ procs[p].pc = "start"
        /\ procs' = [procs EXCEPT ![p] =
                        IF d.raised
                        THEN [Idle EXCEPT !.pc = "ValueError", !.page_id = page.id,
                                          !.readOk = rdOk, !.blocks = bs, !.at = Len(log)]
                        ELSE [pc |-> "read", page_id |-> page.id, readOk |-> rdOk,
                              blocks |-> bs, at |-> Len(log), review_count |-> count,
                              confidence |-> conf, entry |-> e, appendOk |-> FALSE]]
        /\ UNCHANGED <<ledger, today, op, pages, arg, readOk, blocks, tracking_data,
                       outcome, ret, selected, review_count, confidence, entry,
                       appendOk, log, metrics, database, dashboard, archive>>

\* lines 227-243 of run p: append the record computed after the read
AppendEntry(p, appOk) ==
    /\ procs[p].pc = "read"
    /\ \E children \in {PendingChildren(procs[p], ledger, today)} :
           /\ log' = Append(log, Request("append", "ledger", children, appOk))
           /\ ledger' = IF appOk THEN AppendChildren(ledger, children) ELSE ledger
    /\ procs' = [procs EXCEPT ![p].pc = "done", ![p].appendOk = appOk]
    /\ UNCHANGED <<today, op, pages, arg, readOk, blocks, tracking_data,
                   outcome, ret, selected, review_count, confidence, entry,
                   appendOk, metrics, database, dashboard, archive>>

InitRace ==
    /\ ledger \in StartLedgers /\ today = Today0 /\ NoCall
    /\ database = <<>> /\ dashboard = <<>> /\ archive = <<>>
    /\ procs = [p \in Runners |-> Idle]

NextRace ==
    \E p \in Runners :
        \/ \E page \in ReviewedPages, n \in McqCounts, rdOk \in BOOLEAN :
               ReadLedger(p, page, n, rdOk)
        \/ \E appOk \in BOOLEAN : AppendEntry(p, appOk)

SpecRace == InitRace /\ [][NextRace]_vars

\* the record blocks of a page that carry the id
BlocksOf(bs, page_id) ==
    SelectSeq(bs, LAMBDA b : IsRecordBlock(b) /\ IdOf(b) = page_id)

\* both runs are over, were for the same note, read the ledger page before
\* either appended, and all four requests succeeded
BothReadFirst ==
    /\ \A p \in Runners : /\ procs[p].pc = "done" /\ procs[p].at = 0
                           /\ procs[p].readOk /\ procs[p].appendOk
    /\ procs[1].page_id = procs[2].page_id

\* C18: two update_page_tracking calls for one note that both read the
\* ledger page before either appends compute their records from the same
\* prior record; both records are appended, so the page has two more blocks
\* of that note, and the ledger decoded afterwards has review_count =
\* prior + 1 (1 for a first review), not prior + 2.
C18_LostUpdate ==
    BothReadFirst
    => LET page_id == procs[1].page_id
           prior == Decode(procs[1].blocks).data
           after == Decode(ledger).data
           was == IF page_id \in DOMAIN prior THEN prior[page_id].review_count ELSE 0
       IN  /\ procs[1].blocks = procs[2].blocks
           /\ procs[1].review_count = was + 1 /\ procs[2].review_count = was + 1
           /\ procs[1].entry = procs[2].entry
           /\ ledger = procs[1].blocks \o <<Para(<<procs[1].entry>>), Para(<<procs[2].entry>>)>>
           /\ Len(BlocksOf(ledger, page_id)) = Len(BlocksOf(procs[1].blocks, page_id)) + 2
           /\ ~Decode(ledger).raised
           /\ after[page_id].review_count = was + 1
           /\ after[page_id].review_count # was + 2

\* C18's case: the race on a note that already has a record
C18_Witness ==
    /\ BothReadFirst
    /\ procs[1].page_id \in DOMAIN Decode(procs[1].blocks).data
    /\ Len(log) = 2

(* ---------------------------------------------------------------------- *)
(* The driver run again and again on one day, every external call         *)
(* succeeding, from an empty ledger page and a fixed note list.           *)
(* ---------------------------------------------------------------------- *)
RepeatDatabases ==
    Databases \cup {<<TrackerPage, Algebra, Sketches, Biology, RewisePage>>}

InitRepeat ==
    /\ ledger = <<>> /\ today = Today0 /\ NoCall
    /\ database \in RepeatDatabases
    /\ dashboard = <<>> /\ archive = <<>> /\ procs = NoProcs

\* the scheduler starts the driver
Launch ==
    /\ op # "start" /\ Len(ledger) < MaxRepeatBlocks
    /\ op' = "start"
    /\ UNCHANGED <<ledger, today, pages, arg, readOk, blocks, tracking_data, outcome,
                   ret, selected, review_count, confidence, entry, appendOk,
                   log, metrics, database, dashboard, archive, procs>>

\* the run started goes through main.py
Finish == op = "start" /\ Reviews

NextRepeat == Launch \/ Finish

\* the driver is started again and again (while the ledger page is below the
\* bound), and every run started comes to its end: main.py has no loop, so
\* with every external call answered a run ends. The second condition is
\* WF_vars(Finish), Finish being enabled in every state with op = "start".
SpecRepeat ==
    InitRepeat /\ [][NextRepeat]_vars /\ WF_vars(Launch) /\ []<>(op # "start")

\* main.py lines 108-111: the text of the page is not blank
HasContent(page) == Strip(JoinSpaced(BlockTexts(page.id, dashboard))) # <<>>

\* the eligible notes with content all have a record on the ledger page
AllReviewed ==
    \A i \in DOMAIN Scored(database) :
        HasContent(Scored(database)[i])
        => Scored(database)[i].id \in DOMAIN Decode(ledger).data

\* C20: run again and again from an empty ledger with every external call
\* succeeding, the driver eventually selects and records every eligible note
\* that has content, whether or not another eligible note has none.
C20_EveryNoteReviewed == <>AllReviewed

====
